---- MODULE Spec2Model ----
(***************************************************************************)
(* Model of backend/fraud_detector.py: FraudDetector.analyze and its six   *)
(* detectors.  Scores are exact rationals <<numerator, denominator>>;      *)
(* text is a sequence of one-character strings; a PDF is the list of       *)
(* glyph pages pdfplumber yields and the content streams PyPDF2 yields.    *)
(***************************************************************************)
EXTENDS Integers, Sequences, FiniteSets, TLC

(* ---------------------------------------------------------------------- *)
(* Bounds of the explored inputs                                          *)
(* ---------------------------------------------------------------------- *)
MaxRepeat == 6
MaxZeroWidth == 10
MaxStreamOps == 6

(* ---------------------------------------------------------------------- *)
(* State                                                                  *)
(* ---------------------------------------------------------------------- *)
VARIABLES
    tables,     \* the FraudDetector instance: its pattern tables and watchlist
    pc,         \* where the current call of analyze stands
    file,       \* the file behind file_path, as the PDF libraries present it
    parsed,     \* the parsed_data argument
    done,       \* the detectors that have returned in the current call, in the order they ran
    analyses,   \* the dict each detector returned (white_text_analysis, ...)
    logged,     \* who called logger.error in the current call
    report,     \* the dict analyze builds and returns
    memo        \* an earlier call of this instance: its arguments and its report

vars == <<tables, pc, file, parsed, done, analyses, logged, report, memo>>

(* ---------------------------------------------------------------------- *)
(* Exact arithmetic on scores                                             *)
(* ---------------------------------------------------------------------- *)
RECURSIVE Gcd(_, _)
Gcd(a, b) == IF b = 0 THEN a ELSE Gcd(b, a % b)

Rat(n, d) == LET g == Gcd(n, d) IN IF g = 0 THEN <<0, 1>> ELSE <<n \div g, d \div g>>

Zero == <<0, 1>>
One == <<1, 1>>

RAdd(p, q) == Rat(p[1] * q[2] + q[1] * p[2], p[2] * q[2])
RLt(p, q) == p[1] * q[2] < q[1] * p[2]
RLe(p, q) == p[1] * q[2] <= q[1] * p[2]
RMin(p, q) == IF RLe(p, q) THEN p ELSE q
RMax(p, q) == IF RLe(q, p) THEN p ELSE q

(* ---------------------------------------------------------------------- *)
(* Characters and the regular expressions of the pattern tables           *)
(* ---------------------------------------------------------------------- *)
ZW == "u200B"
NL == "\n"
LowerLetters == {"a", "b", "c", "d", "e", "f", "g", "h", "i", "j", "k", "l", "m",
                 "n", "o", "p", "q", "r", "s", "t", "u", "v", "w", "x", "y", "z"}
UpperLetters == {"A", "I"}
\* a letter outside ASCII: U+00E9
EAcute == "u00E9"
IsWord(c) == c \in LowerLetters \cup UpperLetters \cup {EAcute}
IsSpace(c) == c \in {" ", NL}
IsZeroWidth(c) == c = ZW
IsAscii(c) == c \notin {ZW, EAcute}

Lower(c) == IF c = "A" THEN "a" ELSE IF c = "I" THEN "i" ELSE c
LowerText(s) == [k \in 1..Len(s) |-> Lower(s[k])]

Slice(s, i, n) == SubSeq(s, i, i + n - 1)

\* length of the maximal run of word characters of s starting at i
RECURSIVE WordRun(_, _)
WordRun(s, i) == IF i > Len(s) \/ ~IsWord(s[i]) THEN 0 ELSE 1 + WordRun(s, i + 1)

\* length of the maximal run of white space of s starting at i
RECURSIVE SpaceRun(_, _)
SpaceRun(s, i) == IF i > Len(s) \/ ~IsSpace(s[i]) THEN 0 ELSE 1 + SpaceRun(s, i + 1)

\* length of the maximal run of U+0020 of s starting at i
RECURSIVE BlankRun(_, _)
BlankRun(s, i) == IF i > Len(s) \/ s[i] # " " THEN 0 ELSE 1 + BlankRun(s, i + 1)

\* re.findall(r'\b\w+\b', s): the maximal runs of word characters
RECURSIVE WordsFrom(_, _)
WordsFrom(s, i) ==
    IF i > Len(s) THEN <<>>
    ELSE LET n == WordRun(s, i)
         IN IF n = 0 THEN WordsFrom(s, i + 1)
            ELSE <<Slice(s, i, n)>> \o WordsFrom(s, i + n)

Words(s) == WordsFrom(s, 1)

\* s matches t at position i, ignoring case (a back-reference under re.IGNORECASE)
MatchesAt(s, i, t) ==
    /\ i + Len(t) - 1 <= Len(s)
    /\ \A k \in 1..Len(t) : Lower(s[i + k - 1]) = Lower(t[k])

\* number of consecutive copies of t found in s from position i on
RECURSIVE Copies(_, _, _)
Copies(s, i, t) == IF MatchesAt(s, i, t) THEN 1 + Copies(s, i + Len(t), t) ELSE 0

\* '.' matches every character but the newline
DotRun(s, i, n) == \A k \in i..(i + n - 1) : s[k] # NL

\* r'(.{1,20})\1{3,}' tried at position i: the length of the match, 0 if none.
\* The group is greedy: the longest group with at least three repetitions wins.
RECURSIVE RepeatMatchLen(_, _, _)
RepeatMatchLen(s, i, n) ==
    IF n = 0 THEN 0
    ELSE IF i + n - 1 <= Len(s) /\ DotRun(s, i, n) /\ Copies(s, i + n, Slice(s, i, n)) >= 3
         THEN n * (1 + Copies(s, i + n, Slice(s, i, n)))
         ELSE RepeatMatchLen(s, i, n - 1)

\* len(re.findall(r'(.{1,20})\1{3,}', s, re.IGNORECASE)) from position i on
RECURSIVE RepeatMatches(_, _)
RepeatMatches(s, i) ==
    IF i > Len(s) THEN 0
    ELSE LET m == RepeatMatchLen(s, i, 20)
         IN IF m = 0 THEN RepeatMatches(s, i + 1) ELSE 1 + RepeatMatches(s, i + m)

\* r'\b(\w+)\s+\1\s+\1\b' tried at position i: the length of the match, 0 if none
TripleMatchLen(s, i) ==
    LET w == WordRun(s, i)
        g == Slice(s, i, w)
        s1 == SpaceRun(s, i + w)
        p2 == i + w + s1
        s2 == SpaceRun(s, p2 + w)
        p3 == p2 + w + s2
    IN IF /\ w > 0
          /\ (i = 1 \/ ~IsWord(s[i - 1]))
          /\ s1 > 0
          /\ MatchesAt(s, p2, g)
          /\ s2 > 0
          /\ MatchesAt(s, p3, g)
          /\ (p3 + w > Len(s) \/ ~IsWord(s[p3 + w]))
       THEN p3 + w - i
       ELSE 0

\* len(re.findall(r'\b(\w+)\s+\1\s+\1\b', s, re.IGNORECASE)) from position i on
RECURSIVE TripleMatches(_, _)
TripleMatches(s, i) ==
    IF i > Len(s) THEN 0
    ELSE LET m == TripleMatchLen(s, i)
         IN IF m = 0 THEN TripleMatches(s, i + 1) ELSE 1 + TripleMatches(s, i + m)

\* len(re.findall(<zero-width class U+200B..U+200D, U+2060, U+FEFF>, s))
ZeroWidthMatches(s) == Cardinality({k \in 1..Len(s) : IsZeroWidth(s[k])})

\* len(re.findall(<five or more U+0020>, s)) from position i on
RECURSIVE SpaceRunMatches(_, _)
SpaceRunMatches(s, i) ==
    IF i > Len(s) THEN 0
    ELSE LET n == BlankRun(s, i)
         IN IF n >= 5 THEN 1 + SpaceRunMatches(s, i + n)
            ELSE SpaceRunMatches(s, i + (IF n = 0 THEN 1 ELSE n))

\* len(re.findall(r'[^\x00-\x7F\s]', s))
UnusualChars(s) == Cardinality({k \in 1..Len(s) : ~IsAscii(s[k]) /\ ~IsSpace(s[k])})

(* ---------------------------------------------------------------------- *)
(* Signals, issues and the detector's tables                              *)
(* ---------------------------------------------------------------------- *)
\* an issue string: its fixed text and the number formatted into it
Issue(msg, n) == [msg |-> msg, n |-> n]

\* the empty dict of "details"
NoDetails == [empty |-> TRUE]

\* the dict every detector starts from
NewAnalysis == [detected |-> FALSE, risk_score |-> Zero, issues |-> <<>>, details |-> NoDetails]

\* what a detector call yields: the dict it returns and whether its handler logged an error
Returned(analysis) == [analysis |-> analysis, raised |-> FALSE]
Raised(analysis) == [analysis |-> analysis, raised |-> TRUE]

\* FraudDetector.__init__
NewDetector ==
    [ suspicious_patterns |->
        [ keyword_stuffing |-> <<"repeated", "triple_word">>,
          invisible_chars |-> <<"zero_width", "spaces">> ],
      commonly_stuffed_skills |->
        << <<"p","y","t","h","o","n">>, <<"j","a","v","a">>,
           <<"j","a","v","a","s","c","r","i","p","t">>, <<"r","e","a","c","t">>,
           <<"a","n","g","u","l","a","r">>, <<"n","o","d","e",".","j","s">>,
           <<"a","w","s">>, <<"d","o","c","k","e","r">>,
           <<"k","u","b","e","r","n","e","t","e","s">>,
           <<"m","a","c","h","i","n","e"," ","l","e","a","r","n","i","n","g">>,
           <<"a","i">>, <<"s","q","l">> >>,
      white_font_patterns |-> <<"color_or_fill", "font_color", "text_color", "style_color">> ]

\* one for a pattern that matches, however often
PatternMatchesOnce(pattern, text) ==
    CASE pattern = "repeated" -> IF RepeatMatches(text, 1) > 0 THEN 1 ELSE 0
      [] pattern = "triple_word" -> IF TripleMatches(text, 1) > 0 THEN 1 ELSE 0
      [] pattern = "zero_width" -> IF ZeroWidthMatches(text) > 0 THEN 1 ELSE 0
      [] pattern = "spaces" -> IF SpaceRunMatches(text, 1) > 0 THEN 1 ELSE 0

\* len(re.findall(pattern, text, re.IGNORECASE)) for the patterns of the table
PatternMatches(pattern, text) ==
    CASE pattern = "repeated" -> RepeatMatches(text, 1)
      [] pattern = "triple_word" -> TripleMatches(text, 1)
      [] pattern = "zero_width" -> ZeroWidthMatches(text)
      [] pattern = "spaces" -> SpaceRunMatches(text, 1)

RECURSIVE SumSeq(_)
SumSeq(q) == IF q = <<>> THEN 0 ELSE Head(q) + SumSeq(Tail(q))

RECURSIVE Flatten(_)
Flatten(q) == IF q = <<>> THEN <<>> ELSE Head(q) \o Flatten(Tail(q))

(* ---------------------------------------------------------------------- *)
(* _is_light_color and _colors_too_similar                                *)
(* ---------------------------------------------------------------------- *)
\* a colour value: a 6-hex-digit string (kind "hex", with its channels), another
\* string ("malformed"), a non-string such as a list ("list"), or no such key ("absent")
Hex(r, g, b) == [kind |-> "hex", r |-> r, g |-> g, b |-> b]
Absent == [kind |-> "absent", r |-> 0, g |-> 0, b |-> 0]
Malformed == [kind |-> "malformed", r |-> 0, g |-> 0, b |-> 0]
ListColor == [kind |-> "list", r |-> 0, g |-> 0, b |-> 0]
Black == Hex(0, 0, 0)

\* a colour given by the characters of its string
ColourText(chars) == [kind |-> "text", r |-> 0, g |-> 0, b |-> 0, chars |-> chars]

HexDigits == <<"0", "1", "2", "3", "4", "5", "6", "7", "8", "9",
               "a", "b", "c", "d", "e", "f", "A", "B", "C", "D", "E", "F">>
IsHexDigit(c) == \E k \in 1..Len(HexDigits) : HexDigits[k] = c
DigitValue(c) ==
    LET k == CHOOSE j \in 1..Len(HexDigits) : HexDigits[j] = c
    IN IF k <= 16 THEN k - 1 ELSE k - 7

\* int(s, 16) for a string of two characters: two digits, or one digit after a sign or
\* beside white space; anything else raises ValueError
ParseByte(a, b) ==
    IF IsHexDigit(a) /\ IsHexDigit(b) THEN [ok |-> TRUE, value |-> 16 * DigitValue(a) + DigitValue(b)]
    ELSE IF a = "+" /\ IsHexDigit(b) THEN [ok |-> TRUE, value |-> DigitValue(b)]
    ELSE IF a = "-" /\ IsHexDigit(b) THEN [ok |-> TRUE, value |-> 0 - DigitValue(b)]
    ELSE IF IsSpace(a) /\ IsHexDigit(b) THEN [ok |-> TRUE, value |-> DigitValue(b)]
    ELSE IF IsHexDigit(a) /\ IsSpace(b) THEN [ok |-> TRUE, value |-> DigitValue(a)]
    ELSE [ok |-> FALSE, value |-> 0]

\* color.lstrip('#')
RECURSIVE LStripHash(_)
LStripHash(s) == IF s # <<>> /\ Head(s) = "#" THEN LStripHash(Tail(s)) ELSE s

\* the channels read from a colour string, when its length is 6 after the strip and the
\* three conversions succeed; the colour is of no use otherwise
Decode(color) ==
    IF color.kind # "text" THEN color
    ELSE LET c == LStripHash(color.chars)
         IN IF Len(c) # 6 THEN Malformed
            ELSE LET r == ParseByte(c[1], c[2])
                     g == ParseByte(c[3], c[4])
                     b == ParseByte(c[5], c[6])
                 IN IF r.ok /\ g.ok /\ b.ok THEN Hex(r.value, g.value, b.value) ELSE Malformed

\* pure white only
IsLightColorPureWhite(color) ==
    /\ color.kind = "hex"
    /\ color.r = 255 /\ color.g = 255 /\ color.b = 255

\* luminance = (0.299 r + 0.587 g + 0.114 b) / 255 > 0.9
IsLightColor(color) ==
    \E c \in {Decode(color)} :
        /\ c.kind = "hex"
        /\ 299 * c.r + 587 * c.g + 114 * c.b > 229500

\* ((r1-r2)^2 + (g1-g2)^2 + (b1-b2)^2) ^ 0.5 < 30
ColorsTooSimilar(color1, color2) ==
    \E c1 \in {Decode(color1)}, c2 \in {Decode(color2)} :
        /\ c1.kind = "hex"
        /\ c2.kind = "hex"
        /\ (c1.r - c2.r) * (c1.r - c2.r) + (c1.g - c2.g) * (c1.g - c2.g)
             + (c1.b - c2.b) * (c1.b - c2.b) < 900

(* ---------------------------------------------------------------------- *)
(* The file as pdfplumber and PyPDF2 present it                           *)
(* ---------------------------------------------------------------------- *)
\* a char dict of pdfplumber; size_kind tells a number from a missing key and from None
Glyph(text, x0, y0, size_kind, size, color, bgcolor) ==
    [text |-> text, x0 |-> x0, y0 |-> y0, size_kind |-> size_kind, size |-> size,
     color |-> color, bgcolor |-> bgcolor]

\* every file taken for a PDF
IsPdfAlways(f) == TRUE

\* file_path.lower().endswith('.pdf')
IsPdf(f) == f.ext = "pdf"

\* char.get('size', 12)
SizeOrDefault(g) == IF g.size_kind = "absent" THEN 12 ELSE g.size

\* a missing colour taken for white
ColorOrDefaultWhite(g) == IF g.color.kind = "absent" THEN Hex(255, 255, 255) ELSE g.color

\* char.get('color', '#000000')
ColorOrDefault(g) == IF g.color.kind = "absent" THEN Black ELSE g.color

AllChars(pages) == Flatten([k \in 1..Len(pages) |-> pages[k].chars])

(* ---------------------------------------------------------------------- *)
(* _detect_white_text                                                     *)
(* ---------------------------------------------------------------------- *)
\* the pairs of chars of one page that lie within one unit and differ in text
OverlappingCount(chars) ==
    Cardinality({pr \in (1..Len(chars)) \X (1..Len(chars)) :
        /\ pr[1] < pr[2]
        /\ chars[pr[1]].x0 - chars[pr[2]].x0 < 1 /\ chars[pr[2]].x0 - chars[pr[1]].x0 < 1
        /\ chars[pr[1]].y0 - chars[pr[2]].y0 < 1 /\ chars[pr[2]].y0 - chars[pr[1]].y0 < 1
        /\ chars[pr[1]].text # chars[pr[2]].text})

\* what one page adds to suspicious_elements
PageSuspicious(page) ==
    LET chars == page.chars
        idx == 1..Len(chars)
        light == Cardinality({k \in idx : chars[k].color.kind # "absent" /\ IsLightColor(chars[k].color)})
        tiny == Cardinality({k \in idx : SizeOrDefault(chars[k]) < 2})
        outside == Cardinality({k \in idx :
                      \/ chars[k].x0 < 0 \/ chars[k].y0 < 0
                      \/ chars[k].x0 > page.width + 50 \/ chars[k].y0 > page.height + 50})
        overlapping == OverlappingCount(chars)
        similar == Cardinality({k \in idx :
                      /\ chars[k].bgcolor.kind # "absent"
                      /\ chars[k].bgcolor # ColourText(<<>>)
                      /\ ColorsTooSimilar(chars[k].bgcolor, ColorOrDefault(chars[k]))})
    IN light + tiny + outside + (IF overlapping > 5 THEN overlapping ELSE 0) + similar

\* the score without its cap
WhiteTextRiskUncapped(suspicious_elements, total_elements) ==
    Rat(3 * suspicious_elements, total_elements)

\* min(white_text_ratio * 3, 1.0)
WhiteTextRisk(suspicious_elements, total_elements) ==
    RMin(Rat(3 * suspicious_elements, total_elements), One)

\* the tiny ratio weighted like the white ratio
TinyTextRiskTripled(tiny_text_count, total_elements) ==
    RMin(Rat(3 * tiny_text_count, total_elements), One)

\* min(tiny_text_ratio * 2, 1.0)
TinyTextRisk(tiny_text_count, total_elements) ==
    RMin(Rat(2 * tiny_text_count, total_elements), One)

\* the two ratios, the two tests on them and the details, from the three counts
WhiteTextAnalysis(suspicious_elements, total_elements, tiny_text_count) ==
    LET white_text_ratio == Rat(suspicious_elements, total_elements)
        tiny_text_ratio == Rat(tiny_text_count, total_elements)
        a1 == IF RLt(<<5, 100>>, white_text_ratio)
              THEN [NewAnalysis EXCEPT
                      !.detected = TRUE,
                      !.risk_score = WhiteTextRisk(suspicious_elements, total_elements),
                      !.issues = <<Issue("Potential white/hidden text detected", white_text_ratio)>>]
              ELSE NewAnalysis
        a2 == IF RLt(<<1, 10>>, tiny_text_ratio)
              THEN [a1 EXCEPT
                      !.detected = TRUE,
                      !.risk_score = RMax(a1.risk_score, TinyTextRisk(tiny_text_count, total_elements)),
                      !.issues = Append(a1.issues, Issue("Excessive tiny text detected", tiny_text_ratio))]
              ELSE a1
    IN [a2 EXCEPT !.details =
            [suspicious_elements |-> suspicious_elements,
             total_elements |-> total_elements,
             white_text_ratio |-> white_text_ratio,
             tiny_text_ratio |-> tiny_text_ratio]]

DetectWhiteText(f) ==
    IF ~IsPdf(f) THEN Returned(NewAnalysis)
    ELSE IF f.plumber = "error" THEN Raised(NewAnalysis)
    \* None < 2 raises TypeError
    ELSE IF \E k \in 1..Len(AllChars(f.pages)) : AllChars(f.pages)[k].size_kind = "none"
         THEN Raised(NewAnalysis)
    ELSE IF Len(AllChars(f.pages)) = 0 THEN Returned(NewAnalysis)
    ELSE Returned(WhiteTextAnalysis(
             SumSeq([k \in 1..Len(f.pages) |-> PageSuspicious(f.pages[k])]),
             Len(AllChars(f.pages)),
             \* chars is the loop variable, still bound to the last page's after the loop
             Cardinality({k \in 1..Len(f.pages[Len(f.pages)].chars) :
                            SizeOrDefault(f.pages[Len(f.pages)].chars[k]) < 3})))

(* ---------------------------------------------------------------------- *)
(* _detect_keyword_stuffing                                               *)
(* ---------------------------------------------------------------------- *)
\* raw_text: a str (kind "str"), None (kind "none"), or no such key (kind "missing")
Str(chars) == [kind |-> "str", chars |-> chars]

\* the score added onto a dict shared with the white-text detector
KeywordRiskShared(stuffing_indicators) ==
    RMin(RAdd(analyses["white_text"].risk_score, Rat(stuffing_indicators, 5)), One)

\* min(stuffing_indicators * 0.2, 1.0)
KeywordRisk(stuffing_indicators) == RMin(Rat(stuffing_indicators, 5), One)

DetectKeywordStuffing(t, text) ==
    IF text.kind # "str" THEN Raised(NewAnalysis)
    ELSE
      LET words == Words(LowerText(text.chars))
          total_words == Len(words)
          skills == t.commonly_stuffed_skills
          skill_count(k) == Cardinality({w \in 1..Len(words) : words[w] = skills[k]})
          stuffed_skills == {k \in 1..Len(skills) :
                               /\ total_words > 0
                               /\ 100 * skill_count(k) > 2 * total_words
                               /\ skill_count(k) > 5}
          patterns == t.suspicious_patterns.keyword_stuffing
          repeated_patterns == SumSeq([k \in 1..Len(patterns) |-> PatternMatches(patterns[k], text.chars)])
          stuffing_indicators == Cardinality(stuffed_skills) + repeated_patterns
          issue1 == IF stuffed_skills # {}
                    THEN <<Issue("Potential keyword stuffing detected for skills", Rat(Cardinality(stuffed_skills), 1))>>
                    ELSE <<>>
          issue2 == IF repeated_patterns > 0
                    THEN <<Issue("Suspicious repetition patterns found", Rat(repeated_patterns, 1))>>
                    ELSE <<>>
      IN Returned([detected |-> stuffed_skills # {} \/ repeated_patterns > 0,
                   risk_score |-> KeywordRisk(stuffing_indicators),
                   issues |-> issue1 \o issue2,
                   details |-> [stuffed_skills |-> stuffed_skills,
                                repeated_patterns |-> repeated_patterns,
                                total_words |-> total_words]])

(* ---------------------------------------------------------------------- *)
(* _detect_invisible_characters                                           *)
(* ---------------------------------------------------------------------- *)
\* a fifth, not a tenth, for every indicator
InvisibleRiskFifth(total_indicators) == RMin(Rat(total_indicators, 5), One)

\* min(total_indicators * 0.1, 1.0)
InvisibleRisk(total_indicators) == RMin(Rat(total_indicators, 10), One)

DetectInvisibleCharacters(t, text) ==
    IF text.kind # "str" THEN Raised(NewAnalysis)
    ELSE
      LET patterns == t.suspicious_patterns.invisible_chars
          \* the branch '"zero-width" in pattern or "200" in pattern'
          invisible_chars == SumSeq([k \in 1..Len(patterns) |->
                                IF patterns[k] = "zero_width" THEN PatternMatches(patterns[k], text.chars) ELSE 0])
          excessive_spaces == SumSeq([k \in 1..Len(patterns) |->
                                IF patterns[k] = "zero_width" THEN 0 ELSE PatternMatches(patterns[k], text.chars)])
          unusual_chars == UnusualChars(text.chars)
          total_indicators == invisible_chars + excessive_spaces
          issue1 == IF invisible_chars > 0
                    THEN <<Issue("Invisible characters detected", Rat(invisible_chars, 1))>>
                    ELSE <<>>
          issue2 == IF excessive_spaces > 10
                    THEN <<Issue("Excessive whitespace patterns", Rat(excessive_spaces, 1))>>
                    ELSE <<>>
          a1 == IF total_indicators > 0
                THEN [NewAnalysis EXCEPT
                        !.detected = TRUE,
                        !.risk_score = InvisibleRisk(total_indicators),
                        !.issues = issue1 \o issue2]
                ELSE NewAnalysis
      IN Returned([a1 EXCEPT !.details =
              [invisible_chars |-> invisible_chars,
               excessive_spaces |-> excessive_spaces,
               unusual_chars |-> unusual_chars]])

(* ---------------------------------------------------------------------- *)
(* _analyze_suspicious_formatting                                         *)
(* ---------------------------------------------------------------------- *)
RECURSIVE SumSquares(_)
SumSquares(q) == IF q = <<>> THEN 0 ELSE Head(q) * Head(q) + SumSquares(Tail(q))

\* the sample variance, with n - 1 for n
SampleVarianceAbove50(font_sizes) ==
    /\ Len(font_sizes) > 1
    /\ Len(font_sizes) * SumSquares(font_sizes) - SumSeq(font_sizes) * SumSeq(font_sizes)
         > 50 * Len(font_sizes) * (Len(font_sizes) - 1)

\* np.var(font_sizes) > 50, the population variance, over the integers
VarianceAbove50(font_sizes) ==
    /\ Len(font_sizes) > 1
    /\ Len(font_sizes) * SumSquares(font_sizes) - SumSeq(font_sizes) * SumSeq(font_sizes)
         > 50 * Len(font_sizes) * Len(font_sizes)

AnalyzeSuspiciousFormatting(f) ==
    IF ~IsPdf(f) THEN Returned(NewAnalysis)
    ELSE IF f.plumber = "error" THEN Raised(NewAnalysis)
    ELSE
      LET all == AllChars(f.pages)
          font_sizes == SelectSeq([k \in 1..Len(all) |->
                                     IF all[k].size_kind = "num" THEN all[k].size ELSE 0],
                                  LAMBDA x : x # 0)
          text_colors == SelectSeq([k \in 1..Len(all) |-> all[k].color],
                                   LAMBDA c : c.kind # "absent")
          tiny == Cardinality({k \in 1..Len(font_sizes) : font_sizes[k] < 3})
          a1 == IF font_sizes # <<>> /\ 100 * tiny > 5 * Len(font_sizes)
                THEN [NewAnalysis EXCEPT
                        !.detected = TRUE,
                        !.risk_score = RAdd(NewAnalysis.risk_score, <<3, 10>>),
                        !.issues = <<Issue("Unusually small text detected", Rat(tiny, Len(font_sizes)))>>]
                ELSE NewAnalysis
          a2 == IF font_sizes # <<>> /\ VarianceAbove50(font_sizes)
                THEN [a1 EXCEPT
                        !.detected = TRUE,
                        !.risk_score = RAdd(a1.risk_score, <<1, 5>>),
                        !.issues = Append(a1.issues, Issue("Highly variable font sizes detected", Zero))]
                ELSE a1
      IN \* len(set(text_colors)) raises on a colour that is not hashable
         IF \E k \in 1..Len(text_colors) : text_colors[k].kind = "list"
         THEN Raised(a2)
         ELSE Returned([a2 EXCEPT !.details =
                 [sizes |-> Len(font_sizes),
                  color_count |-> Cardinality({text_colors[k] : k \in 1..Len(text_colors)})]])

(* ---------------------------------------------------------------------- *)
(* _analyze_content_authenticity                                          *)
(* ---------------------------------------------------------------------- *)
\* contact_info: a dict (kind "dict", with whether email and phone are set) or None
Contact(email, phone) == [kind |-> "dict", email |-> email, phone |-> phone]
NoneContact == [kind |-> "none", email |-> FALSE, phone |-> FALSE]

\* the test with its two negations dropped
MissingContactInverted(contact_info) == contact_info.email /\ contact_info.phone

\* not contact_info.get("email") and not contact_info.get("phone")
MissingContact(contact_info) == ~contact_info.email /\ ~contact_info.phone

\* twenty skills are already too many
ExcessiveSkillsFromTwenty(experience_years, skill_count) ==
    experience_years < 2 /\ skill_count >= 20

\* experience_years < 2 and skill_count > 20
ExcessiveSkills(experience_years, skill_count) ==
    experience_years < 2 /\ skill_count > 20

\* any experience at all is unrealistic
UnrealisticExperienceFromOne(experience_years) == experience_years >= 1

\* experience_years > 50
UnrealisticExperience(experience_years) == experience_years > 50

AnalyzeContentAuthenticity(p) ==
    \* parsed_data["raw_text"] raises KeyError, textstat raises on None
    IF p.raw_text.kind # "str" THEN Raised(NewAnalysis)
    ELSE
      LET readability_score == p.readability
          skill_count == p.skill_count
          experience_years == p.experience_years
          f1 == ExcessiveSkills(experience_years, skill_count)
          f2 == readability_score < 30
          f3 == MissingContact(p.contact_info)
          f4 == UnrealisticExperience(experience_years)
          s1 == IF f1 THEN RAdd(NewAnalysis.risk_score, <<3, 10>>) ELSE NewAnalysis.risk_score
          s2 == IF f2 THEN RAdd(s1, <<1, 5>>) ELSE s1
          s3 == IF f3 THEN RAdd(s2, <<1, 10>>) ELSE s2
          s4 == IF f4 THEN RAdd(s3, <<2, 5>>) ELSE s3
          red_flags ==
              (IF f1 THEN <<Issue("Excessive skills for experience level", Zero)>> ELSE <<>>)
              \o (IF f2 THEN <<Issue("Poor text readability", Zero)>> ELSE <<>>)
              \o (IF f3 THEN <<Issue("Missing basic contact information", Zero)>> ELSE <<>>)
              \o (IF f4 THEN <<Issue("Unrealistic experience duration", Zero)>> ELSE <<>>)
      IN \* contact_info.get raises when contact_info is None: the score added so far stays
         IF p.contact_info.kind # "dict"
         THEN Raised([NewAnalysis EXCEPT !.risk_score = s2])
         ELSE Returned([detected |-> red_flags # <<>>,
                        risk_score |-> s4,
                        issues |-> red_flags,
                        details |-> [readability_score |-> readability_score,
                                     skill_count |-> skill_count,
                                     experience_years |-> experience_years]])

(* ---------------------------------------------------------------------- *)
(* _analyze_pdf_content_streams                                           *)
(* ---------------------------------------------------------------------- *)
\* the content stream of one page, by the number of matches of each scan
Stream(style, tr_invisible, white_commands, td_outside) ==
    [style |-> style, tr_invisible |-> tr_invisible,
     white_commands |-> white_commands, td_outside |-> td_outside]

\* what one page adds to suspicious_patterns
StreamSuspicious(t, stream) ==
    SumSeq([k \in 1..Len(t.white_font_patterns) |-> stream.style[t.white_font_patterns[k]]])
    + stream.tr_invisible
    + (IF stream.white_commands > 5 THEN 1 ELSE 0)
    + stream.td_outside

\* the first indicator is free
StreamRiskAfterFirst(suspicious_patterns) == RMin(Rat(suspicious_patterns - 1, 5), One)

\* min(suspicious_patterns * 0.2, 1.0)
StreamRisk(suspicious_patterns) == RMin(Rat(suspicious_patterns, 5), One)

AnalyzePdfContentStreams(t, f) ==
    IF ~IsPdf(f) THEN Returned(NewAnalysis)
    ELSE IF f.reader # "ok"
         THEN Raised([NewAnalysis EXCEPT !.details = [error |-> TRUE]])
    ELSE
      LET streams == f.streams
          suspicious_patterns == SumSeq([k \in 1..Len(streams) |-> StreamSuspicious(t, streams[k])])
          a1 == IF suspicious_patterns > 0
                THEN [NewAnalysis EXCEPT
                        !.detected = TRUE,
                        !.risk_score = StreamRisk(suspicious_patterns),
                        !.issues = <<Issue("PDF content stream manipulation detected", Rat(suspicious_patterns, 1))>>]
                ELSE NewAnalysis
      IN Returned([a1 EXCEPT !.details =
              [suspicious_patterns |-> suspicious_patterns,
               total_content_streams |-> Len(streams)]])

(* ---------------------------------------------------------------------- *)
(* analyze: the aggregation                                               *)
(* ---------------------------------------------------------------------- *)
\* the keys of detailed_analysis, in the order the dict is built
Order == <<"white_text", "keyword_stuffing", "invisible_characters",
           "suspicious_formatting", "content_authenticity", "pdf_stream_analysis">>
Detectors == {Order[k] : k \in 1..Len(Order)}

NoSignals == [d \in {} |-> NewAnalysis]

\* the dict kept between calls, as a mutable default would be
InitialReportShared ==
    [overall_risk_score |-> Zero, risk_level |-> "low",
     detected_issues |-> memo.report.detected_issues, detailed_analysis |-> NoSignals]

\* the dict analyze starts from
InitialReport ==
    [overall_risk_score |-> Zero, risk_level |-> "low",
     detected_issues |-> <<>>, detailed_analysis |-> NoSignals]

\* the dict of the outer except branch
FallbackReport ==
    [overall_risk_score |-> Zero, risk_level |-> "unknown",
     detected_issues |-> <<Issue("Analysis failed", Zero)>>, detailed_analysis |-> NoSignals]

\* the denominator the first k scores are brought to
RECURSIVE Denominator(_, _)
Denominator(q, k) == IF k = 0 THEN 1 ELSE q[k][2] * Denominator(q, k - 1)

\* sum(risk_scores), in units of 1 / Denominator(q, Len(q))
RECURSIVE SumScores(_, _)
SumScores(q, k) ==
    IF k = 0 THEN 0
    ELSE q[k][1] * (Denominator(q, Len(q)) \div q[k][2]) + SumScores(q, k - 1)

\* sum(risk_scores) / len(risk_scores)
OverallRiskScore(signals) ==
    LET risk_scores == [k \in 1..Len(Order) |-> signals[Order[k]].risk_score]
    IN Rat(SumScores(risk_scores, Len(risk_scores)),
           Denominator(risk_scores, Len(risk_scores)) * Len(risk_scores))

\* the thresholds taken as strict bounds
RiskLevelStrict(score) ==
    IF RLt(<<7, 10>>, score) THEN "high"
    ELSE IF RLt(<<2, 5>>, score) THEN "medium"
    ELSE "low"

RiskLevel(score) ==
    IF RLe(<<7, 10>>, score) THEN "high"
    ELSE IF RLe(<<2, 5>>, score) THEN "medium"
    ELSE "low"

\* the loop taken over the sorted keys
CompileIssuesSorted(base, signals) ==
    LET sorted == <<"content_authenticity", "invisible_characters", "keyword_stuffing",
                    "pdf_stream_analysis", "suspicious_formatting", "white_text">>
    IN base \o Flatten([k \in 1..Len(sorted) |->
                  IF signals[sorted[k]].detected THEN signals[sorted[k]].issues ELSE <<>>])

\* the loop over detailed_analysis.items()
CompileIssues(base, signals) ==
    base \o Flatten([k \in 1..Len(Order) |->
                IF signals[Order[k]].detected THEN signals[Order[k]].issues ELSE <<>>])

Combine(start, signals) ==
    [overall_risk_score |-> OverallRiskScore(signals),
     risk_level |-> RiskLevel(OverallRiskScore(signals)),
     detected_issues |-> CompileIssues(start.detected_issues, signals),
     detailed_analysis |-> signals]

(* ---------------------------------------------------------------------- *)
(* The inputs explored                                                    *)
(* ---------------------------------------------------------------------- *)
RECURSIVE Rep(_, _)
Rep(unit, n) == IF n <= 0 THEN <<>> ELSE unit \o Rep(unit, n - 1)

\* "ai ai ... ai", n words
AiWords(n) == IF n = 0 THEN <<>> ELSE <<"a", "i">> \o Rep(<<" ", "a", "i">>, n - 1)

MissingText == [kind |-> "missing", chars |-> <<>>]
NoneText == [kind |-> "none", chars |-> <<>>]
EmptyText == Str(<<>>)

Texts ==
    { MissingText, NoneText, EmptyText,
      Str(<<"A", "I", " ", "s", "q", "l">>),
      Str(AiWords(MaxRepeat)),
      Str(AiWords(MaxRepeat + 3)),
      Str(Rep(<<ZW>>, MaxZeroWidth)),
      Str(AiWords(MaxRepeat + 3) \o Rep(<<ZW>>, MaxZeroWidth)),
      Str(<<"x">> \o Rep(<<" ">>, 5) \o <<"y">>) }

ParsedData ==
    { [raw_text |-> t, readability |-> r, skill_count |-> se[1],
       experience_years |-> se[2], contact_info |-> c] :
        t \in Texts, r \in {20, 60}, se \in {<<0, 0>>, <<21, 1>>, <<5, 51>>},
        c \in {Contact(FALSE, FALSE), Contact(TRUE, TRUE), NoneContact} }

MkGlyph(kind, k) ==
    CASE kind = "dark" -> Glyph("a", 10 * k, 700, "num", 12, Black, Absent)
      [] kind = "light" -> Glyph("a", 10 * k, 700, "num", 12, Hex(255, 255, 255), Absent)
      [] kind = "tiny" -> Glyph("a", 10 * k, 700, "num", 1, Absent, Absent)
      [] kind = "big" -> Glyph("a", 10 * k, 700, "num", 40, Black, Absent)
      [] kind = "listcolor" -> Glyph("a", 10 * k, 700, "num", 1, ListColor, Absent)
      [] kind = "nosize" -> Glyph("a", 10 * k, 700, "none", 0, Black, Absent)
      [] kind = "pale" -> Glyph("a", 10 * k, 700, "num", 12, Hex(247, 247, 247), Absent)
      [] kind = "small" -> Glyph("a", 10 * k, 700, "num", 2, Black, Absent)
      [] kind = "large" -> Glyph("a", 10 * k, 700, "num", 26, Black, Absent)
      [] kind = "onblack" -> Glyph("a", 10 * k, 700, "num", 12, Absent, Hex(10, 10, 10))
      [] kind = "camouflaged" -> Glyph("a", 10 * k, 700, "num", 12, Hex(10, 10, 10), Black)
      [] kind = "contrast" -> Glyph("a", 10 * k, 700, "num", 12, Black, Hex(255, 255, 255))
      [] kind = "ghost" -> Glyph("a", 10 * k, 700, "num", 1, Hex(255, 255, 255), Absent)

Page(kinds) == [chars |-> [k \in 1..Len(kinds) |-> MkGlyph(kinds[k], k)],
                width |-> 612, height |-> 792]

Layouts ==
    { <<>>,
      <<Page(<<"dark", "dark", "dark">>)>>,
      <<Page(Rep(<<"dark">>, 9) \o <<"light">>)>>,
      <<Page(<<"light", "light", "tiny", "big">>)>>,
      <<Page(<<"tiny", "tiny", "dark">>), Page(<<"dark", "dark", "dark">>)>>,
      <<Page(<<"listcolor", "dark", "dark">>)>>,
      <<Page(<<"nosize", "dark">>)>> }

NoStyle == [n \in {"color_or_fill", "font_color", "text_color", "style_color"} |-> 0]

StreamLists ==
    { <<>>,
      <<Stream(NoStyle, 0, MaxStreamOps, 0)>>,
      <<Stream(NoStyle, 0, 3, 0), Stream(NoStyle, 0, 3, 0)>>,
      <<Stream([NoStyle EXCEPT !["color_or_fill"] = 1], 3, 0, 2)>> }

Docx == [ext |-> "docx", plumber |-> "ok", pages |-> <<>>, reader |-> "ok", streams |-> <<>>]

Pdfs ==
    { [ext |-> "pdf", plumber |-> "ok", pages |-> l, reader |-> "ok", streams |-> s] :
        l \in Layouts, s \in StreamLists }
    \cup { [ext |-> "pdf", plumber |-> "ok", pages |-> l, reader |-> r, streams |-> <<>>] :
        l \in Layouts, r \in {"error", "hang"} }
    \cup { [ext |-> "pdf", plumber |-> "error", pages |-> <<>>, reader |-> r, streams |-> <<>>] :
        r \in {"ok", "error", "hang"} }

Files == {Docx} \cup Pdfs

(* ---------------------------------------------------------------------- *)
(* analyze as a state machine                                             *)
(* ---------------------------------------------------------------------- *)
\* before a call and after it: no arguments, no report
NoParsed == [raw_text |-> MissingText, readability |-> 0, skill_count |-> 0,
             experience_years |-> 0, contact_info |-> NoneContact]
NoReport == [overall_risk_score |-> Zero, risk_level |-> "none",
             detected_issues |-> <<>>, detailed_analysis |-> NoSignals]
NoMemo == [set |-> FALSE, file |-> Docx, parsed |-> NoParsed, report |-> NoReport,
           other |-> FALSE]

Init ==
    /\ tables = NewDetector
    /\ pc = "idle"
    /\ file = Docx
    /\ parsed = NoParsed
    /\ done = <<>>
    /\ analyses = [d \in Detectors |-> NewAnalysis]
    /\ logged = {}
    /\ report = NoReport
    /\ memo = NoMemo

\* analyze(file_path, parsed_data) is entered
Call(fs, ps) ==
    /\ pc = "idle"
    /\ \E f \in fs, p \in ps :
         /\ file' = f
         /\ parsed' = p
         /\ memo' = IF memo.set /\ (f # memo.file \/ p # memo.parsed)
                    THEN [memo EXCEPT !.other = TRUE]
                    ELSE memo
    /\ pc' = "collect"
    /\ done' = <<>>
    /\ analyses' = [d \in Detectors |-> NewAnalysis]
    /\ logged' = {}
    /\ report' = InitialReport
    /\ UNCHANGED tables

\* the call of detector d
Run(d) ==
    CASE d = "white_text" -> DetectWhiteText(file)
      [] d = "keyword_stuffing" -> DetectKeywordStuffing(tables, parsed.raw_text)
      [] d = "invisible_characters" -> DetectInvisibleCharacters(tables, parsed.raw_text)
      [] d = "suspicious_formatting" -> AnalyzeSuspiciousFormatting(file)
      [] d = "content_authenticity" -> AnalyzeContentAuthenticity(parsed)
      [] d = "pdf_stream_analysis" -> AnalyzePdfContentStreams(tables, file)

\* the lookup done with a default, so that it never raises
ArgumentNeverRaises(d) == FALSE

\* parsed_data["raw_text"], evaluated by analyze for these two calls, raises KeyError
ArgumentRaises(d) ==
    /\ d \in {"keyword_stuffing", "invisible_characters"}
    /\ parsed.raw_text.kind = "missing"

\* PdfReader never comes back
Hangs(d) == d = "pdf_stream_analysis" /\ IsPdf(file) /\ file.reader = "hang"

HasRun == {done[k] : k \in 1..Len(done)}

\* one line of the block of detector calls: the detector's result is bound, or the
\* outer except branch returns the fallback dict
Collect(d) ==
    /\ pc = "collect"
    /\ d \notin HasRun
    /\ ~Hangs(d)
    /\ IF ArgumentRaises(d)
       THEN /\ report' = FallbackReport
            /\ pc' = "returned"
            /\ logged' = logged \cup {"analyze"}
            /\ UNCHANGED <<done, analyses>>
       ELSE /\ \E result \in {Run(d)} :
                 /\ analyses' = [analyses EXCEPT ![d] = result.analysis]
                 /\ logged' = IF result.raised THEN logged \cup {d} ELSE logged
            /\ done' = Append(done, d)
            /\ pc' = IF HasRun \cup {d} = Detectors THEN "combine" ELSE "collect"
            /\ UNCHANGED report
    /\ UNCHANGED <<tables, file, parsed, memo>>

\* the detector the code calls next
InTurn(d) == Len(done) < Len(Order) /\ Order[Len(done) + 1] = d

WhiteText == InTurn("white_text") /\ Collect("white_text")
KeywordStuffing == InTurn("keyword_stuffing") /\ Collect("keyword_stuffing")
InvisibleCharacters == InTurn("invisible_characters") /\ Collect("invisible_characters")
SuspiciousFormatting == InTurn("suspicious_formatting") /\ Collect("suspicious_formatting")
ContentAuthenticity == InTurn("content_authenticity") /\ Collect("content_authenticity")
PdfContentStreams == InTurn("pdf_stream_analysis") /\ Collect("pdf_stream_analysis")

\* the call of a detector that never returns: analyze has no timer
Block(d) ==
    /\ pc = "collect"
    /\ d \notin HasRun
    /\ Hangs(d)
    /\ pc' = "blocked"
    /\ UNCHANGED <<tables, file, parsed, done, analyses, logged, report, memo>>

PdfContentStreamsHang == InTurn("pdf_stream_analysis") /\ Block("pdf_stream_analysis")

\* the score, the level and the issues are computed and the dict is returned
CombineAnalyses ==
    /\ pc = "combine"
    /\ report' = Combine(report, analyses)
    /\ pc' = "returned"
    /\ UNCHANGED <<tables, file, parsed, done, analyses, logged, memo>>

\* the caller has the report; the instance is ready for the next call
Finish ==
    /\ pc = "returned"
    /\ pc' = "idle"
    /\ file' = Docx
    /\ parsed' = NoParsed
    /\ done' = <<>>
    /\ analyses' = [d \in Detectors |-> NewAnalysis]
    /\ logged' = {}
    /\ report' = NoReport
    /\ UNCHANGED <<tables, memo>>

CallAny == Call(Files, ParsedData)

Next ==
    \/ CallAny
    \/ WhiteText
    \/ KeywordStuffing
    \/ InvisibleCharacters
    \/ SuspiciousFormatting
    \/ ContentAuthenticity
    \/ PdfContentStreams
    \/ PdfContentStreamsHang
    \/ CombineAnalyses
    \/ Finish

Spec == Init /\ [][Next]_vars


(* ---------------------------------------------------------------------- *)
(* The same instance called again and again, one call remembered          *)
(* ---------------------------------------------------------------------- *)
SampleTexts == {MissingText, Str(AiWords(MaxRepeat)),
                Str(AiWords(MaxRepeat + 3) \o Rep(<<ZW>>, MaxZeroWidth))}

SampleParsed ==
    {p \in ParsedData :
        /\ p.raw_text \in SampleTexts
        /\ <<p.readability, p.skill_count, p.contact_info.kind>>
             \in {<<20, 5, "none">>, <<20, 5, "dict">>, <<60, 0, "dict">>, <<60, 21, "dict">>}
        /\ p.contact_info.email = FALSE}

SampleFiles ==
    {f \in Files :
        \/ f = Docx
        \/ f.plumber = "error" /\ f.reader = "ok"
        \/ /\ f.plumber = "ok"
           /\ f.pages \in {<<Page(<<"light", "light", "tiny", "big">>)>>,
                           <<Page(<<"listcolor", "dark", "dark">>)>>}
           /\ f.reader \in {"ok", "hang"}
           /\ f.streams \in {<<>>, <<Stream(NoStyle, 0, MaxStreamOps, 0)>>}}

CallSample == Call(SampleFiles, SampleParsed)

\* the report of this call is kept for comparison with later calls
Remember ==
    /\ pc = "returned"
    /\ ~memo.set
    /\ memo' = [set |-> TRUE, file |-> file, parsed |-> parsed, report |-> report,
                other |-> FALSE]
    /\ pc' = "idle"
    /\ file' = Docx
    /\ parsed' = NoParsed
    /\ done' = <<>>
    /\ analyses' = [d \in Detectors |-> NewAnalysis]
    /\ logged' = {}
    /\ report' = NoReport
    /\ UNCHANGED tables

NextTwice ==
    \/ CallSample
    \/ WhiteText
    \/ KeywordStuffing
    \/ InvisibleCharacters
    \/ SuspiciousFormatting
    \/ ContentAuthenticity
    \/ PdfContentStreams
    \/ PdfContentStreamsHang
    \/ CombineAnalyses
    \/ Remember
    \/ Finish

SpecTwice == Init /\ [][NextTwice]_vars

(* ---------------------------------------------------------------------- *)
(* Calls that must come to an end                                         *)
(* ---------------------------------------------------------------------- *)
\* the text plays no part in whether a call returns: it is absent or empty here
TextlessParsed ==
    {p \in ParsedData :
        /\ p.raw_text \in {MissingText, EmptyText}
        /\ p.readability = 60
        /\ p.contact_info = Contact(TRUE, TRUE)}

CallTextless == Call(SampleFiles, TextlessParsed)

NextTextless ==
    \/ CallTextless
    \/ WhiteText
    \/ KeywordStuffing
    \/ InvisibleCharacters
    \/ SuspiciousFormatting
    \/ ContentAuthenticity
    \/ PdfContentStreams
    \/ PdfContentStreamsHang
    \/ CombineAnalyses
    \/ Finish

\* each step of analyze is taken as long as one is possible
FairSpec == Init /\ [][NextTextless]_vars /\ WF_vars(NextTextless)

(* ---------------------------------------------------------------------- *)
(* The six detector calls taken in any order                              *)
(* ---------------------------------------------------------------------- *)
OrderFiles == {f \in SampleFiles : f.ext = "pdf" /\ f.plumber = "ok"}
OrderParsed ==
    {p \in SampleParsed :
        p.raw_text \in {MissingText, Str(AiWords(MaxRepeat))} /\ p.contact_info.kind = "none"}

CallOrdered == Call(OrderFiles, OrderParsed)
CollectAny == \E d \in Detectors : Collect(d)
BlockAny == \E d \in Detectors : Block(d)

NextAnyOrder ==
    \/ CallOrdered
    \/ CollectAny
    \/ BlockAny
    \/ CombineAnalyses
    \/ Finish

SpecAnyOrder == Init /\ [][NextAnyOrder]_vars

(* ---------------------------------------------------------------------- *)
(* Calls on documents that differ in what the parser extracted            *)
(* ---------------------------------------------------------------------- *)
ProfileParsed ==
    { [raw_text |-> t, readability |-> r, skill_count |-> s,
       experience_years |-> e, contact_info |-> c] :
        t \in {EmptyText, MissingText}, r \in {29, 30}, s \in {20, 21}, e \in {1, 2, 50, 51},
        c \in {Contact(FALSE, FALSE), Contact(TRUE, FALSE), Contact(FALSE, TRUE),
                Contact(TRUE, TRUE), NoneContact} }

ProfileFiles ==
    { Docx,
      [ext |-> "pdf", plumber |-> "error", pages |-> <<>>, reader |-> "hang", streams |-> <<>>] }

CallProfiles == Call(ProfileFiles, ProfileParsed)

NextProfiles ==
    \/ CallProfiles
    \/ WhiteText
    \/ KeywordStuffing
    \/ InvisibleCharacters
    \/ SuspiciousFormatting
    \/ ContentAuthenticity
    \/ PdfContentStreams
    \/ PdfContentStreamsHang
    \/ CombineAnalyses
    \/ Finish

SpecProfiles == Init /\ [][NextProfiles]_vars

(* ---------------------------------------------------------------------- *)
(* upload_resume: the report on its way to the ranker                     *)
(* ---------------------------------------------------------------------- *)
\* the fraud analysis of the language model, as far as the ranker reads it
AiOpinions ==
    { [overall_risk_score |-> <<1, 10>>, risk_level |-> "low"],
      [overall_risk_score |-> <<1, 2>>, risk_level |-> "medium"],
      [overall_risk_score |-> <<9, 10>>, risk_level |-> "high"] }

\* what skills, experience and education add to total_score
OtherScores == {<<30, 1>>, <<55, 1>>}

\* {**ai_fraud_analysis, "ai_analysis": ..., "traditional_analysis": ...,
\*  "combined_risk_score": ...}
CombinedFraudAnalysis(ai_fraud_analysis, traditional_fraud_analysis) ==
    [overall_risk_score |-> ai_fraud_analysis.overall_risk_score,
     risk_level |-> ai_fraud_analysis.risk_level,
     ai_analysis |-> ai_fraud_analysis,
     traditional_analysis |-> traditional_fraud_analysis,
     combined_risk_score |->
         LET sum == RAdd(ai_fraud_analysis.overall_risk_score,
                         traditional_fraud_analysis.overall_risk_score)
         IN Rat(sum[1], 2 * sum[2])]

\* CandidateRanker._score_authenticity
ScoreAuthenticity(fraud_analysis) ==
    LET risk_score == fraud_analysis.overall_risk_score
        risk_level == fraud_analysis.risk_level
        Minus(base, factor) == Rat(base * risk_score[2] - factor * risk_score[1], risk_score[2])
    IN IF risk_level = "low" THEN RMax(Minus(100, 20), <<60, 1>>)
       ELSE IF risk_level = "medium" THEN RMax(Minus(60, 30), <<30, 1>>)
       ELSE RMax(Minus(20, 20), Zero)

\* CandidateRanker._get_recommendation
GetRecommendation(score, fraud_analysis) ==
    IF fraud_analysis.risk_level = "high" THEN "Not Recommended - High fraud risk detected"
    ELSE IF RLe(<<75, 1>>, score) THEN "Highly Recommended"
    ELSE IF RLe(<<60, 1>>, score) THEN "Recommended"
    ELSE IF RLe(<<45, 1>>, score) THEN "Consider"
    ELSE "Not Recommended - Below minimum requirements"

\* CandidateRanker.calculate_score, the authenticity score and the recommendation
CalculateScore(other, fraud_analysis) ==
    LET authenticity_score == ScoreAuthenticity(fraud_analysis)
        total_score == RAdd(other, Rat(authenticity_score[1], 4 * authenticity_score[2]))
    IN [authenticity |-> authenticity_score,
        recommendation |-> GetRecommendation(total_score, fraud_analysis)]

\* the ranking of an upload for which the language model and the engine have reported
Ranking(ai, traditional, other) == CalculateScore(other, CombinedFraudAnalysis(ai, traditional))

(* ---------------------------------------------------------------------- *)
(* Calls on PDFs that differ in their glyphs                              *)
(* ---------------------------------------------------------------------- *)
GlyphLayouts ==
    { <<>>,
      <<Page(Rep(<<"dark">>, 9) \o <<"pale">>)>>,
      <<Page(Rep(<<"dark">>, 19) \o <<"pale">>)>>,
      <<Page(Rep(<<"dark">>, 4) \o <<"pale">>), Page(<<"pale">> \o Rep(<<"dark">>, 4))>>,
      <<Page(<<"pale", "dark", "light">>)>>,
      <<Page(<<"small", "small", "dark">>), Page(<<"dark", "dark", "dark">>)>>,
      <<Page(<<"dark", "dark", "dark">>), Page(<<"small", "small", "dark">>)>>,
      <<Page(<<"small">> \o Rep(<<"dark">>, 9))>>,
      <<Page(<<"small", "small">> \o Rep(<<"dark">>, 8))>>,
      <<Page(<<"dark", "large">>)>>,
      <<Page(<<"dark", "big">>)>>,
      <<Page(<<"light", "light", "tiny", "big">>)>>,
      <<Page(<<"onblack", "dark", "dark">>)>>,
      <<Page(<<"camouflaged", "dark", "dark">>)>>,
      <<Page(<<"contrast", "dark", "dark">>)>>,
      <<Page(<<"listcolor", "dark", "dark">>)>>,
      <<Page(<<"nosize", "dark">>)>>,
      <<Page(<<"small">> \o Rep(<<"dark">>, 19))>>,
      <<Page(Rep(<<"nosize">>, 10) \o <<"small">> \o Rep(<<"dark">>, 9))>>,
      <<Page(<<"ghost">>)>>,
      <<Page(<<"ghost", "dark", "dark">>)>> }

GlyphFiles ==
    { [ext |-> "pdf", plumber |-> "ok", pages |-> l, reader |-> "ok", streams |-> <<>>] :
        l \in GlyphLayouts }
    \cup { [ext |-> "pdf", plumber |-> "ok", pages |-> <<Page(<<"dark", "pale">>)>>,
            reader |-> "hang", streams |-> <<>>],
          [ext |-> "pdf", plumber |-> "error", pages |-> <<>>, reader |-> "ok",
            streams |-> <<>>] }

GlyphParsed ==
    {p \in ParsedData :
        /\ p.raw_text \in {MissingText, EmptyText}
        /\ p.readability = 60 /\ p.skill_count = 0
        /\ p.contact_info = Contact(TRUE, TRUE)}

CallGlyphs == Call(GlyphFiles, GlyphParsed)

NextGlyphs ==
    \/ CallGlyphs
    \/ WhiteText
    \/ KeywordStuffing
    \/ InvisibleCharacters
    \/ SuspiciousFormatting
    \/ ContentAuthenticity
    \/ PdfContentStreams
    \/ PdfContentStreamsHang
    \/ CombineAnalyses
    \/ Finish

SpecGlyphs == Init /\ [][NextGlyphs]_vars

(* ---------------------------------------------------------------------- *)
(* Calls that differ in the glyphs and in what the parser extracted       *)
(* ---------------------------------------------------------------------- *)
ScoredParsed == {p \in ProfileParsed : p.raw_text = EmptyText}

CallScored == Call(GlyphFiles, ScoredParsed)

NextScored ==
    \/ CallScored
    \/ WhiteText
    \/ KeywordStuffing
    \/ InvisibleCharacters
    \/ SuspiciousFormatting
    \/ ContentAuthenticity
    \/ PdfContentStreams
    \/ PdfContentStreamsHang
    \/ CombineAnalyses
    \/ Finish

SpecScored == Init /\ [][NextScored]_vars

(* ---------------------------------------------------------------------- *)
(* Calls on PDFs whose one glyph differs in its two colours               *)
(* ---------------------------------------------------------------------- *)
Colours ==
    { ColourText(<<"#", "f", "f", "f", "f", "f", "f">>),
      ColourText(<<"F", "F", "F", "F", "F", "E">>),
      ColourText(<<"#", "0", "0", "0", "0", "0", "0">>),
      ColourText(<<"#", "1", "d", "0", "0", "0", "0">>),
      ColourText(<<"1", "e", "0", "0", "0", "0">>),
      ColourText(<<"#", "0", "f", "0", "f", "0", "f">>),
      ColourText(<<"+", "f", "+", "f", "+", "f">>),
      ColourText(<<"z", "z", "z", "z", "z", "z">>),
      ColourText(<<"#", "f", "f", "f">>),
      ColourText(<<"#">>),
      ListColor }

ColourFiles ==
    { [ext |-> "pdf", plumber |-> "ok",
       pages |-> <<[chars |-> <<Glyph("a", 10, 700, "num", 12, c1, c2)>>,
                    width |-> 612, height |-> 792]>>,
       reader |-> "ok", streams |-> <<>>] : c1 \in Colours, c2 \in Colours }
    \cup { [ext |-> "pdf", plumber |-> "ok", pages |-> <<>>, reader |-> "hang", streams |-> <<>>] }

CallColours == Call(ColourFiles, GlyphParsed)

NextColours ==
    \/ CallColours
    \/ WhiteText
    \/ KeywordStuffing
    \/ InvisibleCharacters
    \/ SuspiciousFormatting
    \/ ContentAuthenticity
    \/ PdfContentStreams
    \/ PdfContentStreamsHang
    \/ CombineAnalyses
    \/ Finish

SpecColours == Init /\ [][NextColours]_vars

(* ---------------------------------------------------------------------- *)
(* Calls on documents that differ in their text                           *)
(* ---------------------------------------------------------------------- *)
\* n copies of term, each two separated by a word of its own
RECURSIVE Spread(_, _)
Spread(term, n) ==
    IF n = 0 THEN <<>>
    ELSE IF n = 1 THEN term
    ELSE Spread(term, n - 1) \o <<" ", <<"b", "c", "d", "e", "f", "g", "h">>[n - 1], " ">> \o term

KeywordTexts ==
    { Str(Spread(<<"p", "y", "t", "h", "o", "n">>, MaxRepeat)),
      Str(Spread(<<"p", "y", "t", "h", "o", "n">>, MaxRepeat - 1)),
      Str(Spread(<<"n", "o", "d", "e", ".", "j", "s">>, MaxRepeat)),
      Str(Spread(<<"A", "I">>, MaxRepeat)),
      Str(Spread(<<"s", "q", "l">>, 2)),
      Str(AiWords(3)),
      Str(AiWords(4)),
      Str(Rep(<<"a", "b">>, 4)),
      Str(Rep(<<"x">>, 3)),
      Str(Rep(<<"x">>, 4)),
      Str(Rep(<<"x", NL>>, 4)),
      Str(Rep(<<"x">>, 8) \o <<" ">> \o AiWords(3)) }

InvisibleTexts ==
    { Str(<<ZW>>),
      Str(<<"x", ZW, "y", ZW>>),
      Str(Rep(<<ZW>>, MaxZeroWidth + 1)),
      Str(<<"x">> \o Rep(<<" ">>, 4) \o <<"y">>),
      Str(<<"x">> \o Rep(<<" ">>, 10) \o <<"y">>),
      Str(Rep(<<" ">>, 5) \o <<"x">> \o Rep(<<" ">>, 6)),
      Str(Rep(<<" ">>, 5) \o <<ZW, EAcute>>),
      Str(<<"c", "a", "f", EAcute>>),
      Str(<<EAcute, " ", EAcute, " ", EAcute>>),
      Str(Rep(<<" ", " ", NL>>, 3)) }

TextParsed ==
    { [raw_text |-> t, readability |-> 60, skill_count |-> 0, experience_years |-> 0,
       contact_info |-> Contact(TRUE, TRUE)] : t \in Texts \cup KeywordTexts \cup InvisibleTexts }

TextFiles ==
    { Docx,
      [ext |-> "pdf", plumber |-> "error", pages |-> <<>>, reader |-> "hang", streams |-> <<>>] }

CallTexts == Call(TextFiles, TextParsed)

NextTexts ==
    \/ CallTexts
    \/ WhiteText
    \/ KeywordStuffing
    \/ InvisibleCharacters
    \/ SuspiciousFormatting
    \/ ContentAuthenticity
    \/ PdfContentStreams
    \/ PdfContentStreamsHang
    \/ CombineAnalyses
    \/ Finish

SpecTexts == Init /\ [][NextTexts]_vars

(* ---------------------------------------------------------------------- *)
(* Calls on files that differ in their content streams                    *)
(* ---------------------------------------------------------------------- *)
\* a content stream holding only n white colour commands
WhiteOps(n) == Stream(NoStyle, 0, n, 0)

ContentStreams ==
    { <<>>,
      <<WhiteOps(MaxStreamOps)>>,
      <<WhiteOps(MaxStreamOps - 1)>>,
      <<WhiteOps(3), WhiteOps(3)>>,
      <<WhiteOps(MaxStreamOps), WhiteOps(MaxStreamOps)>>,
      <<WhiteOps(MaxStreamOps), WhiteOps(2), WhiteOps(0)>>,
      <<Stream(NoStyle, 1, MaxStreamOps, 0)>>,
      <<Stream([NoStyle EXCEPT !["font_color"] = 2], 0, 0, 3)>> }

StreamFiles ==
    { [ext |-> "pdf", plumber |-> "ok", pages |-> <<>>, reader |-> "ok", streams |-> c] :
        c \in ContentStreams }
    \cup { [ext |-> "pdf", plumber |-> "ok", pages |-> <<>>, reader |-> r, streams |-> <<>>] :
        r \in {"error", "hang"} }
    \cup { [ext |-> "docx", plumber |-> pl, pages |-> <<Page(<<"light", "tiny">>)>>, reader |-> r,
            streams |-> <<Stream([NoStyle EXCEPT !["color_or_fill"] = 1], 1, MaxStreamOps, 1)>>] :
        pl \in {"ok", "error"}, r \in {"ok", "error", "hang"} }
    \cup {Docx}

CallStreams == Call(StreamFiles, GlyphParsed)

NextStreams ==
    \/ CallStreams
    \/ WhiteText
    \/ KeywordStuffing
    \/ InvisibleCharacters
    \/ SuspiciousFormatting
    \/ ContentAuthenticity
    \/ PdfContentStreams
    \/ PdfContentStreamsHang
    \/ CombineAnalyses
    \/ Finish

SpecStreams == Init /\ [][NextStreams]_vars

(* ---------------------------------------------------------------------- *)
(* Properties                                                             *)
(* ---------------------------------------------------------------------- *)
InUnit(q) == q[1] >= 0 /\ q[1] <= q[2]
REq(p, q) == p[1] * q[2] = q[1] * p[2]
Signals == report.detailed_analysis
Collected == DOMAIN Signals = Detectors
Failed == logged \cap Detectors

\* C1: in every report analyze returns, overall_risk_score and the risk_score of every
\* signal of detailed_analysis lie in [0,1], also when a detector failed.
C1_ScoresInUnitInterval ==
    /\ InUnit(report.overall_risk_score)
    /\ \A d \in DOMAIN Signals : InUnit(Signals[d].risk_score)

C1_Witness ==
    /\ pc = "returned"
    /\ Collected
    /\ Failed # {}
    /\ \E d \in Detectors : Signals[d].risk_score = One
    /\ RLt(Zero, report.overall_risk_score)

\* C2: once the six signals are collected, overall_risk_score is the sum of the six
\* risk_score values divided by 6, a failed detector's entry being counted as 0.
C2_MeanOfSixFailedAsZero ==
    (pc = "returned" /\ Collected) =>
        /\ REq(<<6 * report.overall_risk_score[1], report.overall_risk_score[2]>>,
               RAdd(Signals["white_text"].risk_score,
               RAdd(Signals["keyword_stuffing"].risk_score,
               RAdd(Signals["invisible_characters"].risk_score,
               RAdd(Signals["suspicious_formatting"].risk_score,
               RAdd(Signals["content_authenticity"].risk_score,
                    Signals["pdf_stream_analysis"].risk_score))))))
        /\ \A d \in Failed : Signals[d].risk_score = Zero

ClaimedLevel(score) ==
    IF 10 * score[1] >= 7 * score[2] THEN "high"
    ELSE IF 10 * score[1] >= 4 * score[2] THEN "medium"
    ELSE "low"

\* C3 as stated: in every report risk_level is high from 0.70, medium from 0.40 and
\* low otherwise, so that it is a function of overall_risk_score alone.
C3_LevelFromScore ==
    pc = "returned" => report.risk_level = ClaimedLevel(report.overall_risk_score)

\* C3 as amended: the thresholds decide risk_level in every report that comes out of
\* the aggregation; the report of the outer except branch has score 0 and level unknown.
C3_LevelFromScoreAggregated ==
    pc = "returned" =>
        IF "analyze" \in logged
        THEN report.risk_level = "unknown" /\ report.overall_risk_score = Zero
        ELSE report.risk_level = ClaimedLevel(report.overall_risk_score)

C3_Witness ==
    /\ pc = "returned"
    /\ report.overall_risk_score = <<7, 10>>
    /\ report.risk_level = "high"

IssuesOf(d) == IF d \in DOMAIN Signals /\ Signals[d].detected THEN Signals[d].issues ELSE <<>>
ClaimedIssues ==
    IssuesOf("white_text") \o IssuesOf("keyword_stuffing") \o IssuesOf("invisible_characters")
    \o IssuesOf("suspicious_formatting") \o IssuesOf("content_authenticity")
    \o IssuesOf("pdf_stream_analysis")

\* C4 as stated: in every report detected_issues is the concatenation, in the order
\* white-text, keyword-stuffing, invisible-characters, formatting, content-authenticity,
\* content-stream, of the issues of the signals with detected=true.
C4_IssuesConcatenated ==
    pc = "returned" => report.detected_issues = ClaimedIssues

\* C4 as amended: the same, for every report that comes out of the aggregation; the
\* report of the outer except branch holds the one issue "Analysis failed" and no signal.
C4_IssuesConcatenatedAggregated ==
    pc = "returned" =>
        IF "analyze" \in logged
        THEN report.detected_issues = <<Issue("Analysis failed", Zero)>> /\ DOMAIN Signals = {}
        ELSE report.detected_issues = ClaimedIssues

C4_Witness ==
    /\ pc = "returned"
    /\ Collected
    /\ Cardinality({d \in Detectors : Signals[d].detected}) >= 3
    /\ \E d \in Detectors : ~Signals[d].detected
    /\ Signals["white_text"].detected /\ Len(Signals["white_text"].issues) = 2
    /\ Signals["pdf_stream_analysis"].detected

\* a document with no glyph, an empty content stream and empty text, from which
\* nothing was extracted
EmptyDocument ==
    /\ file.plumber = "ok" /\ file.reader = "ok"
    /\ AllChars(file.pages) = <<>>
    /\ file.streams = <<>>
    /\ parsed.raw_text = EmptyText
    /\ parsed.skill_count = 0 /\ parsed.experience_years = 0
    /\ parsed.contact_info = Contact(FALSE, FALSE)

C6_FailedDetectorIsZero ==
    \A d \in Failed : analyses[d].risk_score = Zero /\ ~analyses[d].detected

WellFormed ==
    /\ report.risk_level \in {"low", "medium", "high"}
    /\ Collected
    /\ "analyze" \notin logged

\* C7 as stated: for every input, parsed data without raw_text included, the report has
\* a risk_level among low, medium, high and all six signals, and the aggregation of
\* analyze does not fail.
C7_AlwaysWellFormed ==
    pc = "returned" => WellFormed

\* C7 as amended: for parsed data that carries a raw_text entry the report is
\* well-formed as stated; for parsed data without one analyze returns the dict of its
\* outer except branch: score 0, level unknown, the issue "Analysis failed", no signal.
C7_WellFormedOrFallback ==
    pc = "returned" =>
        IF parsed.raw_text.kind = "missing"
        THEN /\ report.risk_level = "unknown"
             /\ report.overall_risk_score = Zero
             /\ report.detected_issues = <<Issue("Analysis failed", Zero)>>
             /\ DOMAIN Signals = {}
        ELSE WellFormed

C7_Witness ==
    /\ pc = "returned"
    /\ parsed.raw_text.kind = "missing"
    /\ "white_text" \in HasRun
    /\ report.risk_level = "unknown"

SameInputAgain == memo.set /\ memo.file = file /\ memo.parsed = parsed
ArgumentsKept == (pc = "collect" \/ pc = "combine") => (parsed' = parsed /\ file' = file)

C9_EveryCallReturns ==
    (pc = "collect") ~>
        (/\ pc = "returned"
         /\ (Collected /\ Hangs("pdf_stream_analysis")) =>
               /\ Signals["pdf_stream_analysis"].risk_score = Zero
               /\ ~Signals["pdf_stream_analysis"].detected)

\* the report analyze makes of the six signals given, or its fallback dict
ReportOf(signals) ==
    IF parsed.raw_text.kind = "missing" THEN FallbackReport
    ELSE LET fresh == [overall_risk_score |-> Zero, risk_level |-> "low",
                       detected_issues |-> <<>>, detailed_analysis |-> NoSignals]
         IN Combine(fresh, signals)

Glyphs == AllChars(file.pages)
GlyphsWhere(Test(_)) == Cardinality({k \in 1..Len(Glyphs) : Test(Glyphs[k])})

\* a fill colour whose luminance is above 0.9
Luminous(g) ==
    g.color.kind = "hex" /\ 299 * g.color.r + 587 * g.color.g + 114 * g.color.b > 229500

\* a glyph of normal size, without background colour, in a place of its own on the page
Unremarkable(g) == g.size_kind = "num" /\ g.size >= 3 /\ g.bgcolor.kind = "absent"

\* the white-text detector has opened the document and returned
WhiteTextRan == "white_text" \in HasRun /\ file.ext = "pdf" /\ file.plumber = "ok"

\* the only suspicious glyphs of the document are those of luminous fill colour
OnlyLuminousSuspicious ==
    /\ WhiteTextRan
    /\ Len(Glyphs) > 0
    /\ \A k \in 1..Len(Glyphs) : Unremarkable(Glyphs[k])
    /\ \A k \in 1..Len(file.pages) : OverlappingCount(file.pages[k].chars) = 0

\* C11: when the glyphs of luminance above 0.9 are the only suspicious ones and make up
\* a fraction p > 0.05 of all glyphs, the white-text signal is detected with
\* risk_score min(3p, 1); p = 10% gives 0.30.
C11_LuminousFractionScored ==
    (OnlyLuminousSuspicious /\ 20 * GlyphsWhere(Luminous) > Len(Glyphs)) =>
        /\ analyses["white_text"].detected
        /\ analyses["white_text"].risk_score = RMin(Rat(3 * GlyphsWhere(Luminous), Len(Glyphs)), One)

C11_Witness ==
    /\ OnlyLuminousSuspicious
    /\ 10 * GlyphsWhere(Luminous) = Len(Glyphs)
    /\ analyses["white_text"].detected
    /\ analyses["white_text"].risk_score = <<3, 10>>

\* the keyword detector has returned on a text
KeywordRan == "keyword_stuffing" \in HasRun /\ parsed.raw_text.kind = "str"

\* the occurrences of a term in the text as a word or phrase of its own, whatever the case
TermOccurrences(term) ==
    LET s == parsed.raw_text.chars
    IN Cardinality({i \in 1..Len(s) :
           /\ MatchesAt(s, i, term)
           /\ (i = 1 \/ ~IsWord(s[i - 1]))
           /\ (i + Len(term) > Len(s) \/ ~IsWord(s[i + Len(term)]))})

\* C12: the keyword signal flags a watchlist term exactly when the term occurs more than
\* 5 times and its occurrences are more than 2% of all word tokens.
C12_FlaggedExactlyWhenFrequent ==
    KeywordRan =>
        \A k \in 1..Len(tables.commonly_stuffed_skills) :
            k \in analyses["keyword_stuffing"].details.stuffed_skills
            <=> /\ TermOccurrences(tables.commonly_stuffed_skills[k]) > 5
                /\ 100 * TermOccurrences(tables.commonly_stuffed_skills[k])
                     > 2 * analyses["keyword_stuffing"].details.total_words

\* the content-stream detector has read the PDF and returned
StreamsRan == "pdf_stream_analysis" \in HasRun /\ file.ext = "pdf" /\ file.reader = "ok"

\* the content stream holds nothing suspicious but white colour commands
OnlyWhiteOps ==
    \A k \in 1..Len(file.streams) :
        /\ file.streams[k].style = NoStyle
        /\ file.streams[k].tr_invisible = 0
        /\ file.streams[k].td_outside = 0

\* the white colour commands of the whole document
RECURSIVE WhiteOpsUpTo(_)
WhiteOpsUpTo(k) == IF k = 0 THEN 0 ELSE file.streams[k].white_commands + WhiteOpsUpTo(k - 1)
TotalWhiteOps == WhiteOpsUpTo(Len(file.streams))

\* C13: the white colour commands of the document count as exactly one hit when there
\* are more than 5 of them in all, however they are spread over the pages, and as none
\* otherwise; with the hit the signal is detected and its risk_score is at least 0.2.
C13_WhiteOpsOneHitOnTotal ==
    (StreamsRan /\ OnlyWhiteOps) =>
        /\ analyses["pdf_stream_analysis"].details.suspicious_patterns
             = (IF TotalWhiteOps > 5 THEN 1 ELSE 0)
        /\ TotalWhiteOps > 5 =>
             /\ analyses["pdf_stream_analysis"].detected
             /\ RLe(<<1, 5>>, analyses["pdf_stream_analysis"].risk_score)

\* C14: for a file that is not a PDF the content-stream signal is the untouched dict,
\* detected=false, risk_score 0, no issue, whatever the file holds; the file is not
\* opened, so that neither a read error is logged nor the call held up.
C14_NonPdfStreamNoOp ==
    file.ext # "pdf" =>
        /\ analyses["pdf_stream_analysis"] = NewAnalysis
        /\ "pdf_stream_analysis" \notin logged
        /\ pc # "blocked"

C14_Witness ==
    /\ file.ext # "pdf"
    /\ "pdf_stream_analysis" \in HasRun
    /\ file.reader = "hang"
    /\ file.streams # <<>>
    /\ pc = "returned"
    /\ Collected

\* the white-text detector has computed its two ratios
WhiteTextRated ==
    WhiteTextRan /\ "white_text_ratio" \in DOMAIN analyses["white_text"].details

WhiteRatio == analyses["white_text"].details.white_text_ratio
TinyRatio == analyses["white_text"].details.tiny_text_ratio
Triple(q) == <<3 * q[1], q[2]>>
Double(q) == <<2 * q[1], q[2]>>

\* C15 as stated: for every glyph stream the white-text risk_score is
\* max(min(white_text_ratio*3, 1), min(tiny_text_ratio*2, 1)), also when neither ratio
\* is above its threshold.
C15_RiskIsMaxOfRatios ==
    WhiteTextRated =>
        REq(analyses["white_text"].risk_score,
            RMax(RMin(Triple(WhiteRatio), One), RMin(Double(TinyRatio), One)))

\* C15 as amended: each ratio counts only when it is above its threshold: the
\* risk_score is the larger of min(white_text_ratio*3, 1) taken when
\* white_text_ratio > 0.05 and min(tiny_text_ratio*2, 1) taken when
\* tiny_text_ratio > 0.10, and 0 when neither is; detected says that one of them is.
C15_RiskIsMaxOfRatiosAboveThreshold ==
    WhiteTextRated =>
        /\ REq(analyses["white_text"].risk_score,
               RMax(IF RLt(<<1, 20>>, WhiteRatio) THEN RMin(Triple(WhiteRatio), One) ELSE Zero,
                    IF RLt(<<1, 10>>, TinyRatio) THEN RMin(Double(TinyRatio), One) ELSE Zero))
        /\ analyses["white_text"].detected
             <=> (RLt(<<1, 20>>, WhiteRatio) \/ RLt(<<1, 10>>, TinyRatio))

C15_Witness ==
    /\ WhiteTextRated
    /\ WhiteRatio = <<1, 20>>
    /\ TinyRatio = Zero
    /\ analyses["white_text"].risk_score = Zero
    /\ ~analyses["white_text"].detected

\* a glyph whose font size is below 3
TinyGlyph(g) == g.size_kind = "num" /\ g.size < 3

\* C16: tiny_text_ratio is the fraction of all glyphs of the document, over every
\* page, whose font size is below 3, and the signal is detected when that fraction is
\* above 0.10, on whichever page the tiny glyphs are.
C16_TinyRatioOverAllPages ==
    WhiteTextRated =>
        /\ REq(TinyRatio, <<GlyphsWhere(TinyGlyph), Len(Glyphs)>>)
        /\ 10 * GlyphsWhere(TinyGlyph) > Len(Glyphs) => analyses["white_text"].detected

\* two colours given as six hex digits, less than 30 apart in RGB
Near(c1, c2) ==
    /\ c1.kind = "hex" /\ c2.kind = "hex"
    /\ (c1.r - c2.r) * (c1.r - c2.r) + (c1.g - c2.g) * (c1.g - c2.g)
         + (c1.b - c2.b) * (c1.b - c2.b) < 30 * 30

\* nothing but a collision of colours can make a glyph of the document suspicious
OnlyCollisionsSuspicious ==
    /\ WhiteTextRated
    /\ \A k \in 1..Len(Glyphs) :
          ~Luminous(Glyphs[k]) /\ Glyphs[k].size_kind = "num" /\ Glyphs[k].size >= 3
    /\ \A k \in 1..Len(file.pages) : OverlappingCount(file.pages[k].chars) = 0

CollisionHits == analyses["white_text"].details.suspicious_elements

BothColoursCollide(g) ==
    g.color.kind # "absent" /\ g.bgcolor.kind # "absent" /\ Near(g.bgcolor, g.color)

\* C17 as stated: a glyph adds a collision hit only when it has both a fill colour and a
\* background colour less than 30 apart; a glyph without fill colour never adds one.
C17_CollisionNeedsBothColours ==
    OnlyCollisionsSuspicious => CollisionHits = GlyphsWhere(BothColoursCollide)

BackgroundCollides(g) ==
    /\ g.bgcolor.kind # "absent"
    /\ Near(g.bgcolor, IF g.color.kind = "absent" THEN Hex(0, 0, 0) ELSE g.color)

\* C17 as amended: a glyph adds a collision hit exactly when it has a background colour
\* less than 30 apart from its fill colour, a glyph without fill colour being taken as
\* black: on a background within 30 of black it does add a hit.
C17_CollisionWithDefaultBlack ==
    OnlyCollisionsSuspicious => CollisionHits = GlyphsWhere(BackgroundCollides)

C17_Witness ==
    /\ OnlyCollisionsSuspicious
    /\ \E k \in 1..Len(Glyphs) :
          Glyphs[k].color.kind = "absent" /\ Glyphs[k].bgcolor.kind = "hex"
    /\ CollisionHits = 1
    /\ analyses["white_text"].detected

\* the watchlist terms flagged, and the matches of the repeated-substring pattern and of
\* the triple-word pattern in the text
FlaggedTerms == Cardinality(analyses["keyword_stuffing"].details.stuffed_skills)
PatternHits == RepeatMatches(parsed.raw_text.chars, 1) + TripleMatches(parsed.raw_text.chars, 1)

\* C18: the keyword signal's risk_score is min((flagged_terms + pattern_hits) * 0.2, 1)
\* and detected is true exactly when flagged_terms + pattern_hits > 0.
C18_KeywordScoreFromHits ==
    KeywordRan =>
        /\ analyses["keyword_stuffing"].risk_score = RMin(Rat(FlaggedTerms + PatternHits, 5), One)
        /\ analyses["keyword_stuffing"].detected <=> FlaggedTerms + PatternHits > 0
        /\ analyses["keyword_stuffing"].details.repeated_patterns = PatternHits

C18_Witness ==
    /\ KeywordRan
    /\ FlaggedTerms = 1
    /\ RepeatMatches(parsed.raw_text.chars, 1) = 1
    /\ TripleMatches(parsed.raw_text.chars, 1) = 2
    /\ analyses["keyword_stuffing"].risk_score = <<4, 5>>
    /\ analyses["keyword_stuffing"].detected

InvisibleRan == "invisible_characters" \in HasRun /\ parsed.raw_text.kind = "str"

\* the zero-width characters of the text, its maximal runs of five or more U+0020, and
\* its characters that are neither ASCII nor white space
ZeroWidthCount ==
    Cardinality({k \in 1..Len(parsed.raw_text.chars) : parsed.raw_text.chars[k] = ZW})
SpaceRunCount ==
    LET s == parsed.raw_text.chars
    IN Cardinality({k \in 1..Len(s) :
          /\ k = 1 \/ s[k - 1] # " "
          /\ k + 4 <= Len(s)
          /\ \A j \in k..(k + 4) : s[j] = " "})
NonAsciiCount ==
    Cardinality({k \in 1..Len(parsed.raw_text.chars) : parsed.raw_text.chars[k] \in {ZW, EAcute}})

\* C19: the invisible-character signal's risk_score is
\* min((zero_width_count + space_run_count) * 0.1, 1) and detected is true exactly when
\* that sum is positive; the count of non-ASCII characters is recorded in the details and
\* has no part in risk_score or detected.
C19_InvisibleScoreFromCounts ==
    InvisibleRan =>
        /\ analyses["invisible_characters"].risk_score = RMin(Rat(ZeroWidthCount + SpaceRunCount, 10), One)
        /\ analyses["invisible_characters"].detected <=> ZeroWidthCount + SpaceRunCount > 0
        /\ analyses["invisible_characters"].details.unusual_chars = NonAsciiCount

C19_Witness ==
    /\ InvisibleRan
    /\ ZeroWidthCount = 1
    /\ SpaceRunCount = 1
    /\ NonAsciiCount = 2
    /\ analyses["invisible_characters"].risk_score = <<1, 5>>
    /\ analyses["invisible_characters"].detected

\* the formatting detector has opened the document
FormattingRan == "suspicious_formatting" \in HasRun /\ file.ext = "pdf" /\ file.plumber = "ok"

\* the glyphs that have a font size, and the sum of a measure over them
Sized == {k \in 1..Len(Glyphs) : Glyphs[k].size_kind = "num" /\ Glyphs[k].size # 0}
RECURSIVE SumOver(_, _)
SumOver(ks, f) ==
    IF ks = {} THEN 0 ELSE LET k == CHOOSE x \in ks : TRUE IN f[k] + SumOver(ks \ {k}, f)

\* more than 5% of the sized glyphs are below size 3
TinyFires == 100 * Cardinality({k \in Sized : Glyphs[k].size < 3}) > 5 * Cardinality(Sized)

\* the mean of the squared deviations from the mean size is above 50
VarianceFires ==
    LET n == Cardinality(Sized)
        total == SumOver(Sized, [k \in Sized |-> Glyphs[k].size])
        dev == [k \in Sized |-> (n * Glyphs[k].size - total) * (n * Glyphs[k].size - total)]
    IN SumOver(Sized, dev) > 50 * n * n * n

\* C20: the formatting signal's risk_score is 0.3 if more than 5% of the sized glyphs are
\* tiny plus 0.2 if the variance of the font sizes is above 50 (one of 0, 0.2, 0.3, 0.5),
\* detected is true exactly when one of the two conditions holds, and issues holds one
\* entry per condition that fired.
C20_FormattingScoreAdditive ==
    FormattingRan =>
        /\ analyses["suspicious_formatting"].risk_score =
              RAdd(IF TinyFires THEN <<3, 10>> ELSE Zero, IF VarianceFires THEN <<1, 5>> ELSE Zero)
        /\ analyses["suspicious_formatting"].risk_score \in {Zero, <<1, 5>>, <<3, 10>>, <<1, 2>>}
        /\ analyses["suspicious_formatting"].detected <=> TinyFires \/ VarianceFires
        /\ Len(analyses["suspicious_formatting"].issues) =
              (IF TinyFires THEN 1 ELSE 0) + (IF VarianceFires THEN 1 ELSE 0)

C20_Witness ==
    /\ FormattingRan
    /\ TinyFires
    /\ VarianceFires
    /\ analyses["suspicious_formatting"].risk_score = <<1, 2>>
    /\ analyses["suspicious_formatting"].detected
    /\ Len(analyses["suspicious_formatting"].issues) = 2

\* the content detector has read the text and the contact information
ContentRan ==
    /\ "content_authenticity" \in HasRun
    /\ parsed.raw_text.kind = "str"
    /\ parsed.contact_info.kind = "dict"

\* the four conditions in their order of evaluation, each with its reason and its weight
Conditions ==
    << [fired |-> parsed.experience_years < 2 /\ parsed.skill_count > 20,
        reason |-> "Excessive skills for experience level", weight |-> <<3, 10>>],
       [fired |-> parsed.readability < 30,
        reason |-> "Poor text readability", weight |-> <<1, 5>>],
       [fired |-> ~parsed.contact_info.email /\ ~parsed.contact_info.phone,
        reason |-> "Missing basic contact information", weight |-> <<1, 10>>],
       [fired |-> parsed.experience_years > 50,
        reason |-> "Unrealistic experience duration", weight |-> <<2, 5>>] >>
Fired == SelectSeq(Conditions, LAMBDA c : c.fired)
RECURSIVE WeightSum(_)
WeightSum(cs) == IF cs = <<>> THEN Zero ELSE RAdd(Head(cs).weight, WeightSum(Tail(cs)))

\* C21: the content signal's risk_score is the sum of 0.3 if experience < 2 and
\* skill_count > 20, 0.2 if readability < 30, 0.1 if email and phone are both absent and
\* 0.4 if experience > 50; detected is true exactly when a condition fired, and issues
\* holds one reason per fired condition, in the order skills, readability, contact,
\* experience.
C21_ContentScoreAdditive ==
    ContentRan =>
        /\ analyses["content_authenticity"].risk_score = WeightSum(Fired)
        /\ analyses["content_authenticity"].detected <=> Fired # <<>>
        /\ [k \in 1..Len(analyses["content_authenticity"].issues) |->
               analyses["content_authenticity"].issues[k].msg]
             = [k \in 1..Len(Fired) |-> Fired[k].reason]

C21_Witness ==
    /\ ContentRan
    /\ Len(Fired) = 3
    /\ parsed.skill_count = 21 /\ parsed.experience_years = 1
    /\ analyses["content_authenticity"].risk_score = <<3, 5>>
    /\ analyses["content_authenticity"].detected
    /\ Len(analyses["content_authenticity"].issues) = 3

\* the hits of the document other than the one for white colour commands: the invisible
\* rendering modes, the matches of the style patterns and the Td operands out of range
RECURSIVE OtherHitsUpTo(_)
OtherHitsUpTo(k) ==
    IF k = 0 THEN 0
    ELSE file.streams[k].tr_invisible + file.streams[k].td_outside
         + file.streams[k].style["color_or_fill"] + file.streams[k].style["font_color"]
         + file.streams[k].style["text_color"] + file.streams[k].style["style_color"]
         + OtherHitsUpTo(k - 1)
TotalHits == OtherHitsUpTo(Len(file.streams)) + (IF TotalWhiteOps > 5 THEN 1 ELSE 0)

\* C22: the content-stream signal's risk_score is min(total_hits * 0.2, 1) and detected
\* is true exactly when total_hits > 0, total_hits being, over the document, one hit per
\* invisible rendering mode, one per match of a style pattern, one per Td operand out
\* of range, and the single hit for more than 5 white colour commands.
C22_StreamScoreFromHits ==
    StreamsRan =>
        /\ analyses["pdf_stream_analysis"].risk_score = RMin(Rat(TotalHits, 5), One)
        /\ analyses["pdf_stream_analysis"].detected <=> TotalHits > 0

\* C23 as stated: a detector that awaits a call can be given an input for which the
\* additive score of the formatting signal or of the content signal exceeds 1.0 before
\* it is folded into the mean of the six.
C23_SomeSubScoreExceedsOne ==
    pc = "idle" =>
        \/ \E f \in GlyphFiles : RLt(One, AnalyzeSuspiciousFormatting(f).analysis.risk_score)
        \/ \E p \in ScoredParsed : RLt(One, AnalyzeContentAuthenticity(p).analysis.risk_score)

\* C23: for every input the additive score of the formatting signal is at most 0.5 and
\* that of the content signal at most 0.7, too few and too many years of experience
\* excluding each other; neither exceeds 1.0 before it is folded into the mean of the six.
C23_SubScoresBelowOne ==
    /\ RLe(analyses["suspicious_formatting"].risk_score, <<1, 2>>)
    /\ RLe(analyses["content_authenticity"].risk_score, <<7, 10>>)
    /\ \A d \in DOMAIN report.detailed_analysis :
          d \in {"suspicious_formatting", "content_authenticity"}
              => RLe(report.detailed_analysis[d].risk_score, One)

C23_Witness ==
    /\ pc = "returned"
    /\ "suspicious_formatting" \in DOMAIN report.detailed_analysis
    /\ report.detailed_analysis["suspicious_formatting"].risk_score = <<1, 2>>
    /\ report.detailed_analysis["content_authenticity"].risk_score = <<7, 10>>

\* the signal holds the description of the failure, among its issues or in its details
CarriesDescription(d) ==
    \/ "error" \in DOMAIN analyses[d].details
    \/ \E k \in 1..Len(analyses[d].issues) : analyses[d].issues[k].msg = "error"

\* C24: the signal substituted for a detector that failed on its input carries the
\* description of the failure as one evidence string, for each of the six detectors.
C24_FailedSignalCarriesDescription ==
    \A d \in Failed : CarriesDescription(d)

\* the detectors that have returned in this call without an error in their handler
Completed == HasRun \ logged

\* C25: a signal produced by a detector that completes without an internal error has
\* detected=true exactly when its risk_score is above 0, for each of the six detectors.
C25_DetectedIffPositive ==
    \A d \in Completed : analyses[d].detected <=> RLt(Zero, analyses[d].risk_score)

C25_Witness ==
    /\ Completed = Detectors
    /\ \E d \in Detectors : analyses[d].detected /\ RLt(Zero, analyses[d].risk_score)
    /\ \E d \in Detectors : ~analyses[d].detected /\ analyses[d].risk_score = Zero
    /\ analyses["pdf_stream_analysis"].detected

\* C26: every signal with detected=true carries at least one issue, so that a report in
\* which some signal is detected has a non-empty detected_issues list.
C26_DetectedHasIssue ==
    /\ \A d \in HasRun : analyses[d].detected => analyses[d].issues # <<>>
    /\ (pc = "returned" /\ Collected /\ \E d \in Detectors : Signals[d].detected)
          => report.detected_issues # <<>>

\* C27: in the white-text signal suspicious_count never exceeds total_count, so that
\* white_text_ratio is a fraction in [0,1] of the document's glyphs, for every glyph
\* stream, glyphs that are suspicious on several counts included.
C27_SuspiciousWithinTotal ==
    WhiteTextRated =>
        /\ analyses["white_text"].details.suspicious_elements
             <= analyses["white_text"].details.total_elements
        /\ InUnit(WhiteRatio)

\* texts written to have a term flagged: the term MaxRepeat times, its occurrences set
\* apart by single spaces or by words of their own
StuffedWith(term) ==
    { Str(Spread(term, MaxRepeat)), Str(Rep(term \o <<" ">>, MaxRepeat)) }

\* the term at place k of the watchlist is flagged in the text
FlaggedIn(k, text) ==
    k \in DetectKeywordStuffing(tables, text).analysis.details.stuffed_skills

\* C28: every entry of the watchlist can be flagged by some text: for each term, "machine
\* learning" and "node.js" among them, a detector that awaits a call can be given a text
\* in which the term is counted more than 5 times and is flagged.
C28_EveryTermCanBeFlagged ==
    pc = "idle" =>
        \A k \in 1..Len(tables.commonly_stuffed_skills) :
            \E text \in StuffedWith(tables.commonly_stuffed_skills[k]) \cup KeywordTexts :
                FlaggedIn(k, text)

\* two uploads, an earlier one and this one, whose engine reports differ in
\* overall_risk_score or risk_level
TwoReportsDiffer ==
    /\ pc = "returned"
    /\ memo.set
    /\ <<report.overall_risk_score, report.risk_level>>
         # <<memo.report.overall_risk_score, memo.report.risk_level>>

\* C29: the engine's report has a part in the ranking it is passed on to: two uploads
\* that differ only in the engine's overall_risk_score and risk_level can, with the same
\* opinion of the language model, be given different authenticity scores and
\* recommendations by the ranker.
C29_EngineReportReachesRanking ==
    TwoReportsDiffer =>
        \E ai \in AiOpinions, other \in OtherScores :
            Ranking(ai, report, other) # Ranking(ai, memo.report, other)

\* the white-text detector has compared the two colours of the document's one glyph
ColoursCompared ==
    /\ "white_text" \in HasRun
    /\ file.ext = "pdf" /\ file.plumber = "ok"
    /\ Len(Glyphs) = 1

\* a string of six hex digits, with or without the leading '#'
SixHexDigits(s) == Len(s) = 6 /\ \A k \in 1..6 : IsHexDigit(s[k])
WellFormedColour(color) ==
    /\ color.kind = "text"
    /\ \/ SixHexDigits(color.chars)
       \/ color.chars # <<>> /\ Head(color.chars) = "#" /\ SixHexDigits(Tail(color.chars))

\* the squared distance in RGB of two well-formed colours
Channel(color, k) ==
    LET s == IF Head(color.chars) = "#" THEN Tail(color.chars) ELSE color.chars
    IN 16 * DigitValue(s[2 * k - 1]) + DigitValue(s[2 * k])
SquaredDistance(c1, c2) ==
    (Channel(c1, 1) - Channel(c2, 1)) * (Channel(c1, 1) - Channel(c2, 1))
    + (Channel(c1, 2) - Channel(c2, 2)) * (Channel(c1, 2) - Channel(c2, 2))
    + (Channel(c1, 3) - Channel(c2, 3)) * (Channel(c1, 3) - Channel(c2, 3))

\* C30: _colors_too_similar gives the same answer for (a,b) and (b,a), true for (a,a)
\* and true exactly when the squared RGB distance is below 900, for colours a and b of
\* six hex digits; for a malformed colour it gives false and does not raise.
C30_ColorsTooSimilarRelation ==
    ColoursCompared =>
        \A pair \in {<<Glyphs[1].color, Glyphs[1].bgcolor>>} :
            /\ ColorsTooSimilar(pair[1], pair[2]) = ColorsTooSimilar(pair[2], pair[1])
            /\ WellFormedColour(pair[1]) => ColorsTooSimilar(pair[1], pair[1])
            /\ (WellFormedColour(pair[1]) /\ WellFormedColour(pair[2]))
                  => (ColorsTooSimilar(pair[1], pair[2]) <=> SquaredDistance(pair[1], pair[2]) < 900)
            /\ (~WellFormedColour(pair[1]) \/ ~WellFormedColour(pair[2]))
                  => ~ColorsTooSimilar(pair[1], pair[2])

====
